---- MODULE Spec2Model ----
(***************************************************************************)
(* Model of the CyberForge Seek & Enter pipeline:                          *)
(*   backend/scanners/enter_engine.py    exploit registry, selector and    *)
(*                                       the exploit modules (generators)  *)
(*   backend/services/seek_enter_service.py  run_seek / run_enter and the  *)
(*                                       two in-memory maps                *)
(*   backend/scanners/nmap_scanner.py    _expand_hosts, _parse_port_range  *)
(*   backend/scanners/seek_scanner.py    seek_scan and its two paths       *)
(*   backend/routers/seek_enter.py       the HTTP handlers                 *)
(*                                                                         *)
(* A generator is modelled by its position (pc): one action resumes it and *)
(* runs it up to its next yield, so every action of the Enter part emits   *)
(* exactly one event or ends the stream.                                   *)
(***************************************************************************)
EXTENDS Integers, Sequences, FiniteSets, TLC

VARIABLES
    pc,            \* position of the run_enter generator (and of the generators nested in it)
    req,           \* the EnterRequest being served
    sid,           \* session_id of the current run
    nextId,        \* source of fresh uuid4 values
    exploit,       \* exploit_id chosen by select_exploit
    stream,        \* events delivered to the consumer of run_enter, in order
    emitted,       \* events yielded by run_exploit during the current run, in order
    success,       \* run_enter local
    access_level,  \* run_enter local
    loot,          \* run_enter local
    idx,           \* loop index of the running module (credential index)
    idx2,          \* second loop index (login path index), or lines left to emit
    mflag,         \* module local: ssh tool in use / FTP PASS answer / output kind
    opened,        \* connections and subprocesses started by the current run
    inflight,      \* sockets and subprocesses of the current run not yet released
    sessions,      \* SeekEnterService._enter_sessions
    history,       \* scan_history.status by id
    runs,          \* Enter runs started so far
    spc,           \* position of the Seek request being served
    sreq,          \* the Seek request: target and port specification
    scan_id,       \* scan_id of the current Seek call
    nmap_available,\* seek_scanner._NMAP_AVAILABLE, fixed when the module is loaded
    netenv,        \* what the network answers during the current scan
    all_hosts,     \* _seek_with_sockets local
    port_list,     \* _seek_with_sockets local
    alive_hosts,   \* _seek_with_sockets local / live_hosts of _seek_with_nmap
    cursor,        \* loop position of the scan (batch start, host index)
    found,         \* hosts: the DiscoveredHost list under construction
    services,      \* services of the host being swept
    result,        \* the SeekResult returned by seek_scan
    probes,        \* connection attempts made by the current scan
    seek_cache,    \* SeekEnterService._seek_cache
    response,      \* what the HTTP handler answers
    seeks,         \* Seek calls started so far
    on_progress,   \* whether the current seek_scan call was given a progress callback
    progress,      \* percentages passed to the callback by the current call, in order
    fn,            \* pure function applied last
    arg,           \* its argument
    out            \* its result

enterVars == <<pc, req, sid, exploit, stream, emitted, success, access_level, loot,
               idx, idx2, mflag, opened, inflight, sessions, runs>>
seekVars == <<spc, sreq, scan_id, nmap_available, netenv, all_hosts, port_list, alive_hosts,
              cursor, found, services, result, probes, seek_cache, response, seeks,
              on_progress, progress>>
pureVars == <<fn, arg, out>>
sharedVars == <<nextId, history>>
vars == <<enterVars, seekVars, pureVars, sharedVars>>

\* ------------------------------------------------------------------------
\* Bounds
\* ------------------------------------------------------------------------
MaxRuns == 1
MaxOutLines == 2

\* ------------------------------------------------------------------------
\* Exploit registry (enter_engine.py)
\* ------------------------------------------------------------------------
RegistryOrder ==
    <<"ssh_bruteforce", "ftp_anonymous", "http_default_creds",
      "smb_null_session", "banner_grab">>

EXPLOIT_REGISTRY ==
    [eid \in {RegistryOrder[k] : k \in 1..Len(RegistryOrder)} |->
        CASE eid = "ssh_bruteforce" ->
                [name |-> "SSH Credential Bruteforce",
                 services |-> {"ssh"}, ports |-> {22, 2222}]
          [] eid = "ftp_anonymous" ->
                [name |-> "FTP Anonymous Access",
                 services |-> {"ftp"}, ports |-> {21}]
          [] eid = "http_default_creds" ->
                [name |-> "HTTP Default Credentials",
                 services |-> {"http", "https", "http-proxy", "https-alt"},
                 ports |-> {80, 443, 8080, 8443, 8888}]
          [] eid = "smb_null_session" ->
                [name |-> "SMB Null Session",
                 services |-> {"microsoft-ds", "netbios-ssn"},
                 ports |-> {445, 139}]
          [] eid = "banner_grab" ->
                [name |-> "Service Banner Grab",
                 services |-> {"*"}, ports |-> {}]]

\* The loop of select_exploit from registry position k on.
RECURSIVE SelectFrom(_, _, _)
SelectFromBoth(k, service, port) ==
    IF k > Len(RegistryOrder) THEN "banner_grab"
    ELSE LET eid == RegistryOrder[k]
             mod == EXPLOIT_REGISTRY[eid]
         IN IF eid = "banner_grab"
            THEN SelectFrom(k + 1, service, port)
            ELSE IF service \in mod.services /\ port \in mod.ports
                 THEN eid
                 ELSE SelectFrom(k + 1, service, port)
SelectFrom(k, service, port) ==
    IF k > Len(RegistryOrder) THEN "banner_grab"
    ELSE LET eid == RegistryOrder[k]
             mod == EXPLOIT_REGISTRY[eid]
         IN IF eid = "banner_grab"
            THEN SelectFrom(k + 1, service, port)
            ELSE IF service \in mod.services \/ port \in mod.ports
                 THEN eid
                 ELSE SelectFrom(k + 1, service, port)

select_exploit_any(service, port, exploit_id) ==
    IF exploit_id # "auto"
    THEN exploit_id
    ELSE SelectFrom(1, service, port)
select_exploit(service, port, exploit_id) ==
    IF exploit_id # "auto"
    THEN IF exploit_id \in DOMAIN EXPLOIT_REGISTRY THEN exploit_id ELSE ""
    ELSE SelectFrom(1, service, port)

\* ------------------------------------------------------------------------
\* Events (enter_engine._event); the timestamp is wall-clock and left out.
\* A message is the tuple of its fixed text and its interpolated values.
\* ------------------------------------------------------------------------
_event(event_type, message, module) ==
    [event_type |-> event_type, message |-> message, module |-> module]

Separator == <<"============">>

SshCreds ==
    << <<"root", "root">>, <<"root", "toor">>, <<"root", "password">>,
       <<"admin", "admin">>, <<"admin", "password">>, <<"admin", "123456">>,
       <<"pi", "raspberry">>, <<"ubuntu", "ubuntu">>, <<"user", "user">>,
       <<"root", "">>, <<"admin", "">> >>

HttpCreds ==
    << <<"admin", "admin">>, <<"admin", "password">>, <<"admin", "123456">>,
       <<"root", "root">>, <<"administrator", "administrator">>,
       <<"admin", "admin123">>, <<"admin", "">>, <<"user", "user">> >>

LoginPaths == <<"/", "/login", "/admin", "/admin/login", "/wp-login.php">>

FormCredCount == 4

display_pass(password) == IF password = "" THEN "(empty)" ELSE password

\* Words of the model's vocabulary whose lower-cased text contains the needle.
ContainsRoot(word) == word \in {"root", "/root/panel"}
ContainsAdmin(word) ==
    word \in {"admin", "administrator", "admin123", "/admin", "/admin/login"}

\* run_enter, lines 138-143
AccessOfElevated(message) ==
    IF \E k \in 1..Len(message) : ContainsRoot(message[k]) THEN "root"
    ELSE IF \E k \in 1..Len(message) : ContainsAdmin(message[k]) THEN "admin"
    ELSE "none"
AccessOf(message) ==
    IF \E k \in 1..Len(message) : ContainsRoot(message[k]) THEN "root"
    ELSE IF \E k \in 1..Len(message) : ContainsAdmin(message[k]) THEN "admin"
    ELSE "user"

\* ------------------------------------------------------------------------
\* Range Expander and target validation (nmap_scanner.py, validators.py)
\*
\* An IPv4 address is its 32-bit value (below 2^31 here).  A target string
\* is represented by what the parsers of the ipaddress library make of it:
\*   [kind |-> "ip",   addr]            a single address
\*   [kind |-> "cidr", addr, prefix]    "addr/prefix" (prefix > 32: ValueError)
\*   [kind |-> "dash", addr, end]       "A.B.C.start-end"
\*   [kind |-> "junk"]                  text none of the three forms accepts
\*   [kind |-> "dirty", inner]          text with shell metacharacters around inner
\* ------------------------------------------------------------------------
RECURSIVE Pow2(_)
Pow2(n) == IF n = 0 THEN 1 ELSE 2 * Pow2(n - 1)

AddrBits == 32
HostCap == 65536
OctetMax == 255
OctetSize == 256

IsNetwork(target) == target.kind = "cidr" /\ target.prefix \in 0..AddrBits

num_addresses(target) == Pow2(AddrBits - target.prefix)

network_address(target) == target.addr - (target.addr % num_addresses(target))

\* every address of the block, network and broadcast address included
AllAddresses(target) ==
    [k \in 1..num_addresses(target) |-> network_address(target) + k - 1]
\* ipaddress.IPv4Network.hosts(), as called at nmap_scanner.py line 62
NetworkHosts(target) ==
    IF target.prefix = AddrBits THEN <<network_address(target)>>
    ELSE IF target.prefix = AddrBits - 1
         THEN <<network_address(target), network_address(target) + 1>>
         ELSE [k \in 1..(num_addresses(target) - 2) |-> network_address(target) + k]

DashStart(target) == target.addr % OctetSize

DashOk(target) ==
    /\ target.kind = "dash"
    /\ 0 <= target.end /\ target.end <= OctetMax
    /\ DashStart(target) <= target.end

_expand_hosts_all(target) ==
    IF target.kind = "ip" THEN <<target.addr>>
    ELSE IF IsNetwork(target)
    THEN IF num_addresses(target) <= HostCap
         THEN AllAddresses(target)
         ELSE <<>>
    ELSE IF DashOk(target)
    THEN [k \in 1..(target.end - DashStart(target) + 1) |-> target.addr + k - 1]
    ELSE <<>>
_expand_hosts(target) ==
    IF target.kind = "ip" THEN <<target.addr>>
    ELSE IF IsNetwork(target)
    THEN IF num_addresses(target) <= HostCap
         THEN IF NetworkHosts(target) # <<>>
              THEN NetworkHosts(target)
              ELSE <<network_address(target)>>
         ELSE <<>>
    ELSE IF DashOk(target)
    THEN [k \in 1..(target.end - DashStart(target) + 1) |-> target.addr + k - 1]
    ELSE <<>>

validate_ip_range_any(target) == target.kind # "dirty"
validate_ip_range(target) ==
    \/ target.kind = "ip"
    \/ IsNetwork(target)
    \/ DashOk(target)

\* validators.sanitize_input: the metacharacters are removed, the rest stays
sanitize_input(target) == IF target.kind = "dirty" THEN target.inner ELSE target

\* ------------------------------------------------------------------------
\* Port Spec Parser (nmap_scanner.py lines 82-98)
\*
\* A port specification is the sequence of its comma-separated parts:
\*   [kind |-> "single", v]       a part without "-" that int() accepts
\*   [kind |-> "range", lo, hi]   "lo-hi" with both sides accepted by int()
\*   [kind |-> "bad"]             a part on which int() raises ValueError
\* ------------------------------------------------------------------------
PortMin == 1
PortMax == 65535
RangeStopCap == 65536

Min2(a, b) == IF a < b THEN a ELSE b

\* list(range(start, stop))
PyRange(start, stop) ==
    IF stop > start THEN [k \in 1..(stop - start) |-> start + k - 1] ELSE <<>>

SeqRange(q) == {q[k] : k \in 1..Len(q)}

\* sorted(set(...)) of a set of integers
SortedSeq(S) ==
    IF S = {} THEN <<>>
    ELSE LET lo == CHOOSE x \in S : \A y \in S : x <= y
             hi == CHOOSE x \in S : \A y \in S : y <= x
             Member(v) == v \in S
         IN SelectSeq([k \in 1..(hi - lo + 1) |-> lo + k - 1], Member)

PartPortsOpenEnd(part) ==
    IF part.kind = "range"
    THEN PyRange(part.lo, Min2(part.hi, RangeStopCap))
    ELSE IF PortMin <= part.v /\ part.v <= PortMax THEN <<part.v>> ELSE <<>>
\* what one part adds to result (lines 90-97)
PartPorts(part) ==
    IF part.kind = "range"
    THEN PyRange(part.lo, Min2(part.hi + 1, RangeStopCap))
    ELSE IF PortMin <= part.v /\ part.v <= PortMax THEN <<part.v>> ELSE <<>>

RECURSIVE CollectPorts(_)
CollectPorts(parts) ==
    IF parts = <<>> THEN <<>>
    ELSE PartPorts(Head(parts)) \o CollectPorts(Tail(parts))

\* the result list, or raised when int() raises ValueError on some part
_parse_port_range(ports) ==
    IF \E k \in 1..Len(ports) : ports[k].kind = "bad"
    THEN [raised |-> TRUE, ports |-> <<>>]
    ELSE [raised |-> FALSE, ports |-> SortedSeq(SeqRange(CollectPorts(ports)))]

\* ------------------------------------------------------------------------
\* Inputs of the Enter part
\* ------------------------------------------------------------------------
EnterTargets ==
    { [service |-> "ssh", port |-> 22],
      [service |-> "ftp", port |-> 21],
      [service |-> "http", port |-> 8080],
      [service |-> "microsoft-ds", port |-> 445],
      [service |-> "", port |-> 9999] }

EnterExploitIds == {"auto", "ftp_anonymous", "bogus"}

EnterRequests ==
    { [service |-> t.service, port |-> t.port, exploit_id |-> e] :
        t \in EnterTargets, e \in EnterExploitIds }

NoRequest == [service |-> "", port |-> 0, exploit_id |-> ""]

\* ------------------------------------------------------------------------
\* run_enter (seek_enter_service.py) and run_exploit (enter_engine.py)
\* ------------------------------------------------------------------------
modVars == <<idx, idx2, mflag>>
resVars == <<opened, inflight>>
runVars == <<req, sid, nextId, exploit, runs>>
storeVars == <<sessions, history>>

\* run_enter's own yield: the event goes to the consumer as it is.
Yield(ev) == stream' = Append(stream, ev) /\ UNCHANGED emitted

\* An event yielded by run_exploit passes through run_enter's loop body
\* (lines 136-146) before it is yielded to the consumer.
RelayDropsOutput(ev) ==
    /\ IF ev.event_type = "success"
       THEN /\ success' = TRUE
            /\ access_level' = AccessOf(ev.message)
            /\ loot' = Append(loot, ev.message)
       ELSE UNCHANGED <<success, access_level, loot>>
    /\ emitted' = Append(emitted, ev)
    /\ stream' = IF ev.event_type = "output" THEN stream ELSE Append(stream, ev)
Relay(ev) ==
    /\ IF ev.event_type = "success"
       THEN /\ success' = TRUE
            /\ access_level' = AccessOf(ev.message)
            /\ loot' = Append(loot, ev.message)
       ELSE UNCHANGED <<success, access_level, loot>>
    /\ emitted' = Append(emitted, ev)
    /\ stream' = Append(stream, ev)

\* The running module generator is exhausted: run_exploit goes on to line 119.
ModuleReturn ==
    /\ Relay(_event("info", Separator, exploit))
    /\ pc' = "x_complete"

\* An exception leaves run_exploit: run_enter's except clause (lines 148-150).
ModuleCrashPropagates ==
    /\ pc' = "raised"
    /\ UNCHANGED <<stream, emitted, success, access_level, loot>>
ModuleCrash ==
    /\ Yield(_event("error", <<"[!] Module crashed:">>, ""))
    /\ pc' = "e_crashed"
    /\ UNCHANGED <<success, access_level, loot>>

\* lines 105-124 up to the first yield.  _store_history may raise (database).
StartEnter ==
    /\ pc \in {"idle", "done", "raised", "cancelled"}
    /\ runs < MaxRuns
    /\ \E r \in EnterRequests, dbOk \in BOOLEAN :
        /\ req' = r
        /\ sid' = nextId
        /\ nextId' = nextId + 1
        /\ runs' = runs + 1
        /\ success' = FALSE
        /\ access_level' = ""
        /\ loot' = <<>>
        /\ idx' = 0 /\ idx2' = 0 /\ mflag' = ""
        /\ opened' = 0 /\ inflight' = 0
        /\ emitted' = <<>>
        /\ UNCHANGED sessions
        /\ IF ~dbOk
           THEN /\ pc' = "raised"
                /\ stream' = <<>>
                /\ exploit' = ""
                /\ UNCHANGED history
           ELSE /\ history' = (nextId :> "running") @@ history
                /\ exploit' = select_exploit(r.service, r.port, r.exploit_id)
                /\ IF exploit' = ""
                   THEN /\ stream' = <<_event("error",
                                        <<"[!] No exploit module available for", r.service>>, "")>>
                        /\ pc' = "e_nosel"
                   ELSE /\ stream' = <<_event("info", <<"[*] Session ID:">>, "")>>
                        /\ pc' = "e_sel1"
    /\ UNCHANGED <<seekVars, pureVars>>

\* lines 117-121
EnterNoModule ==
    /\ pc = "e_nosel"
    /\ \E dbOk \in BOOLEAN :
        IF dbOk
        THEN /\ history' = [history EXCEPT ![sid] = "error"]
             /\ pc' = "done"
        ELSE /\ pc' = "raised"
             /\ UNCHANGED history
    /\ UNCHANGED <<runVars, stream, emitted, success, access_level, loot, modVars, resVars, sessions>>
    /\ UNCHANGED <<seekVars, pureVars>>

\* line 124
EnterSelected ==
    /\ pc = "e_sel1"
    /\ Yield(_event("info", <<"[*] Selected module:", exploit>>, ""))
    /\ pc' = "e_sel2"
    /\ UNCHANGED <<runVars, success, access_level, loot, modVars, resVars, storeVars>>
    /\ UNCHANGED <<seekVars, pureVars>>

\* lines 126-132 and run_exploit lines 95-97
RunExploitInit ==
    /\ pc = "e_sel2"
    /\ success' = FALSE
    /\ access_level' = "none"
    /\ loot' = <<>>
    /\ stream' = Append(stream, _event("info", <<"[*] Initializing module:">>, exploit))
    /\ emitted' = <<_event("info", <<"[*] Initializing module:">>, exploit)>>
    /\ pc' = "x_init1"
    /\ UNCHANGED <<runVars, modVars, resVars, storeVars>>
    /\ UNCHANGED <<seekVars, pureVars>>

\* run_exploit line 98
RunExploitTarget ==
    /\ pc = "x_init1"
    /\ Relay(_event("info", <<"[*] Target:", req.service>>, exploit))
    /\ pc' = "x_init2"
    /\ UNCHANGED <<runVars, modVars, resVars, storeVars>>
    /\ UNCHANGED <<seekVars, pureVars>>

\* run_exploit line 99
RunExploitBanner ==
    /\ pc = "x_init2"
    /\ Relay(_event("info", Separator, exploit))
    /\ pc' = "x_dispatch"
    /\ UNCHANGED <<runVars, modVars, resVars, storeVars>>
    /\ UNCHANGED <<seekVars, pureVars>>

\* A module that ended on a yield is resumed and returns: run_exploit line 119.
ModuleEnd ==
    /\ pc = "mod_end"
    /\ ModuleReturn
    /\ UNCHANGED <<runVars, modVars, resVars, storeVars>>
    /\ UNCHANGED <<seekVars, pureVars>>

\* run_exploit line 120
RunExploitComplete ==
    /\ pc = "x_complete"
    /\ Relay(_event("complete", <<"[*] Module execution finished">>, exploit))
    /\ pc' = "x_end"
    /\ UNCHANGED <<runVars, modVars, resVars, storeVars>>
    /\ UNCHANGED <<seekVars, pureVars>>

EnterResult ==
    [session_id |-> sid, port |-> req.port, service |-> req.service,
     success |-> success, method |-> exploit,
     access_level |-> access_level, loot |-> loot]

EnterStoreResultNoCrash ==
    /\ pc \in {"x_end", "e_crashed"}
    /\ sessions' = IF pc = "x_end" THEN (sid :> EnterResult) @@ sessions ELSE sessions
    /\ \E dbOk \in BOOLEAN :
        IF dbOk
        THEN /\ history' = [history EXCEPT ![sid] = "completed"]
             /\ Yield(_event("complete", <<"[*] Result:">>, ""))
             /\ pc' = "e_final"
        ELSE /\ pc' = "raised"
             /\ UNCHANGED <<history, stream, emitted>>
    /\ UNCHANGED <<runVars, success, access_level, loot, modVars, resVars>>
    /\ UNCHANGED <<seekVars, pureVars>>
\* lines 152-180: the result is stored in the map, then persisted, then the
\* final event is yielded.  _store_result or _store_history may raise.
EnterStoreResult ==
    /\ pc \in {"x_end", "e_crashed"}
    /\ sessions' = (sid :> EnterResult) @@ sessions
    /\ \E dbOk \in BOOLEAN :
        IF dbOk
        THEN /\ history' = [history EXCEPT ![sid] = "completed"]
             /\ Yield(_event("complete", <<"[*] Result:">>, ""))
             /\ pc' = "e_final"
        ELSE /\ pc' = "raised"
             /\ UNCHANGED <<history, stream, emitted>>
    /\ UNCHANGED <<runVars, success, access_level, loot, modVars, resVars>>
    /\ UNCHANGED <<seekVars, pureVars>>

\* The consumer asks for the next event after the last yield: the stream ends.
EnterFinish ==
    /\ pc = "e_final"
    /\ pc' = "done"
    /\ UNCHANGED <<runVars, stream, emitted, success, access_level, loot, modVars, resVars, storeVars>>
    /\ UNCHANGED <<seekVars, pureVars>>

\* ------------------------------------------------------------------------
\* _exploit_ssh_bruteforce (enter_engine.py lines 128-243)
\* ------------------------------------------------------------------------
SshTesting(k) ==
    _event("output", <<"    Testing", SshCreds[k][1], display_pass(SshCreds[k][2])>>,
           "ssh_bruteforce")

\* line 140
SshStart ==
    /\ pc = "x_dispatch" /\ exploit = "ssh_bruteforce"
    /\ Relay(_event("command", <<"[>] Testing credential pairs against SSH">>, "ssh_bruteforce"))
    /\ pc' = "ssh_import"
    /\ UNCHANGED <<runVars, modVars, resVars, storeVars>>
    /\ UNCHANGED <<seekVars, pureVars>>

\* lines 142-155: the import of asyncssh succeeds or raises ImportError
SshImport ==
    /\ pc = "ssh_import"
    /\ \E ssh_available \in BOOLEAN :
        IF ssh_available
        THEN /\ mflag' = "asyncssh"
             /\ idx' = 1
             /\ Relay(SshTesting(1))
             /\ pc' = "ssh_try"
        ELSE /\ Relay(_event("info", <<"[!] asyncssh not installed">>, "ssh_bruteforce"))
             /\ pc' = "ssh_fb"
             /\ UNCHANGED <<mflag, idx>>
    /\ UNCHANGED <<runVars, idx2, resVars, storeVars>>
    /\ UNCHANGED <<seekVars, pureVars>>

\* line 148
SshFallbackInfo ==
    /\ pc = "ssh_fb"
    /\ Relay(_event("info", <<"[*] Falling back to subprocess SSH authentication">>, "ssh_bruteforce"))
    /\ pc' = "ssh_which"
    /\ UNCHANGED <<runVars, modVars, resVars, storeVars>>
    /\ UNCHANGED <<seekVars, pureVars>>

\* lines 174-178, 203-204, 228-239: which helper binary is installed
SshWhich ==
    /\ pc = "ssh_which"
    /\ \E tool \in {"sshpass", "plink", "none"} :
        IF tool # "none"
        THEN /\ mflag' = tool
             /\ Relay(_event("info", <<"[*] Using for credential testing", tool>>, "ssh_bruteforce"))
             /\ pc' = "ssh_loop"
             /\ UNCHANGED resVars
        ELSE \E net \in {"banner", "refused", "read_timeout"} :
             /\ mflag' = "none"
             /\ opened' = opened + 1
             /\ inflight' = IF net = "read_timeout" THEN inflight + 1 ELSE inflight
             /\ IF net = "banner"
                THEN Relay(_event("output", <<"    Banner:">>, "ssh_bruteforce"))
                ELSE Relay(_event("error", <<"[!] Connection failed to">>, "ssh_bruteforce"))
             /\ pc' = "ssh_notool"
    /\ UNCHANGED <<runVars, idx, idx2, storeVars>>
    /\ UNCHANGED <<seekVars, pureVars>>

\* lines 179-181 / 205-207: first iteration of the helper loop
SshLoopFirst ==
    /\ pc = "ssh_loop"
    /\ idx' = 1
    /\ Relay(SshTesting(1))
    /\ pc' = "ssh_try"
    /\ UNCHANGED <<runVars, idx2, mflag, resVars, storeVars>>
    /\ UNCHANGED <<seekVars, pureVars>>

\* lines 156-171 / 182-202 / 208-227: one credential attempt, up to the next
\* yield.  A helper that times out is left running (wait_for only cancels
\* communicate()).
SshTry ==
    /\ pc = "ssh_try"
    /\ \E res \in {"login", "denied", "timeout"} :
        /\ opened' = opened + 1
        /\ IF res = "login"
           THEN /\ Relay(_event("success",
                        <<"[+] SUCCESS:", SshCreds[idx][1], display_pass(SshCreds[idx][2])>>,
                        "ssh_bruteforce"))
                /\ inflight' = IF mflag = "asyncssh" THEN inflight + 1 ELSE inflight
                /\ pc' = "ssh_s1"
                /\ UNCHANGED idx
           ELSE /\ inflight' = IF res = "timeout" /\ mflag # "asyncssh"
                               THEN inflight + 1 ELSE inflight
                /\ IF idx < Len(SshCreds)
                   THEN /\ idx' = idx + 1
                        /\ Relay(SshTesting(idx + 1))
                        /\ pc' = "ssh_try"
                   ELSE /\ Relay(_event("error", <<"[-] No valid credentials found">>, "ssh_bruteforce"))
                        /\ pc' = "mod_end"
                        /\ UNCHANGED idx
    /\ UNCHANGED <<runVars, idx2, mflag, storeVars>>
    /\ UNCHANGED <<seekVars, pureVars>>

\* lines 165 / 196 / 221
SshShellOutput ==
    /\ pc = "ssh_s1"
    /\ Relay(_event("output", <<"    Shell output:">>, "ssh_bruteforce"))
    /\ pc' = "ssh_s2"
    /\ UNCHANGED <<runVars, modVars, resVars, storeVars>>
    /\ UNCHANGED <<seekVars, pureVars>>

\* lines 166-167 / 197-198 / 222-223
SshAccessLevel ==
    /\ pc = "ssh_s2"
    /\ \E access \in {"root", "user"} :
        Relay(_event("success", <<"[+] Access level:", access>>, "ssh_bruteforce"))
    /\ pc' = "ssh_s3"
    /\ UNCHANGED <<runVars, modVars, resVars, storeVars>>
    /\ UNCHANGED <<seekVars, pureVars>>

\* lines 168-169 (success = True; break), line 242: the module returns
SshBreakContinues ==
    /\ pc = "ssh_s3"
    /\ inflight' = IF mflag = "asyncssh" THEN inflight - 1 ELSE inflight
    /\ IF idx < Len(SshCreds)
       THEN /\ idx' = idx + 1
            /\ Relay(SshTesting(idx + 1))
            /\ pc' = "ssh_try"
       ELSE /\ ModuleReturn
            /\ UNCHANGED idx
    /\ UNCHANGED <<runVars, idx2, mflag, opened, storeVars>>
    /\ UNCHANGED <<seekVars, pureVars>>
SshBreak ==
    /\ pc = "ssh_s3"
    /\ inflight' = IF mflag = "asyncssh" THEN inflight - 1 ELSE inflight
    /\ ModuleReturn
    /\ UNCHANGED <<runVars, modVars, opened, storeVars>>
    /\ UNCHANGED <<seekVars, pureVars>>

\* line 240
SshNoTool ==
    /\ pc = "ssh_notool"
    /\ Relay(_event("error", <<"[!] No SSH auth tool available">>, "ssh_bruteforce"))
    /\ pc' = "ssh_after"
    /\ UNCHANGED <<runVars, modVars, resVars, storeVars>>
    /\ UNCHANGED <<seekVars, pureVars>>

\* lines 242-243 after the banner-only branch: success is still False
SshNoCreds ==
    /\ pc = "ssh_after"
    /\ Relay(_event("error", <<"[-] No valid credentials found">>, "ssh_bruteforce"))
    /\ pc' = "mod_end"
    /\ UNCHANGED <<runVars, modVars, resVars, storeVars>>
    /\ UNCHANGED <<seekVars, pureVars>>

\* ------------------------------------------------------------------------
\* _exploit_ftp_anonymous (enter_engine.py lines 246-286)
\* ------------------------------------------------------------------------
FtpFailed == _event("error", <<"[!] FTP connection failed:">>, "ftp_anonymous")

\* line 251
FtpStart ==
    /\ pc = "x_dispatch" /\ exploit = "ftp_anonymous"
    /\ Relay(_event("command", <<"[>] Checking for anonymous FTP access">>, "ftp_anonymous"))
    /\ pc' = "ftp_conn"
    /\ UNCHANGED <<runVars, modVars, resVars, storeVars>>
    /\ UNCHANGED <<seekVars, pureVars>>

\* lines 253-258 (any exception: line 286)
FtpConnect ==
    /\ pc = "ftp_conn"
    /\ opened' = opened + 1
    /\ \E net \in {"banner", "refused", "read_timeout"} :
        /\ inflight' = IF net = "refused" THEN inflight ELSE inflight + 1
        /\ IF net = "banner"
           THEN Relay(_event("output", <<"    Banner:">>, "ftp_anonymous")) /\ pc' = "ftp_user"
           ELSE Relay(FtpFailed) /\ pc' = "mod_end"
    /\ UNCHANGED <<runVars, modVars, storeVars>>
    /\ UNCHANGED <<seekVars, pureVars>>

\* lines 260-263
FtpUser ==
    /\ pc = "ftp_user"
    /\ \E ok \in BOOLEAN :
        IF ok
        THEN Relay(_event("output", <<"    USER:">>, "ftp_anonymous")) /\ pc' = "ftp_pass"
        ELSE Relay(FtpFailed) /\ pc' = "mod_end"
    /\ UNCHANGED <<runVars, modVars, resVars, storeVars>>
    /\ UNCHANGED <<seekVars, pureVars>>

\* lines 265-269
FtpPass ==
    /\ pc = "ftp_pass"
    /\ \E resp \in {"230", "530", "fault"} :
        IF resp # "fault"
        THEN /\ Relay(_event("output", <<"    PASS:", resp>>, "ftp_anonymous"))
             /\ mflag' = resp
             /\ pc' = "ftp_check"
        ELSE /\ Relay(FtpFailed) /\ pc' = "mod_end" /\ UNCHANGED mflag
    /\ UNCHANGED <<runVars, idx, idx2, resVars, storeVars>>
    /\ UNCHANGED <<seekVars, pureVars>>

\* lines 271-272, 277-278
FtpCheck ==
    /\ pc = "ftp_check"
    /\ IF mflag = "230"
       THEN /\ Relay(_event("success", <<"[+] Anonymous FTP login SUCCESSFUL">>, "ftp_anonymous"))
            /\ pc' = "ftp_pwd"
       ELSE /\ Relay(_event("error", <<"[-] Anonymous login rejected">>, "ftp_anonymous"))
            /\ pc' = "ftp_quit"
    /\ UNCHANGED <<runVars, modVars, resVars, storeVars>>
    /\ UNCHANGED <<seekVars, pureVars>>

\* lines 273-276
FtpPwd ==
    /\ pc = "ftp_pwd"
    /\ \E ok \in BOOLEAN :
        IF ok
        THEN Relay(_event("output", <<"    PWD:">>, "ftp_anonymous")) /\ pc' = "ftp_quit"
        ELSE Relay(FtpFailed) /\ pc' = "mod_end"
    /\ UNCHANGED <<runVars, modVars, resVars, storeVars>>
    /\ UNCHANGED <<seekVars, pureVars>>

\* lines 280-283, then the module returns
FtpQuit ==
    /\ pc = "ftp_quit"
    /\ \E ok \in BOOLEAN :
        IF ok
        THEN inflight' = inflight - 1 /\ ModuleReturn
        ELSE Relay(FtpFailed) /\ pc' = "mod_end" /\ UNCHANGED inflight
    /\ UNCHANGED <<runVars, modVars, opened, storeVars>>
    /\ UNCHANGED <<seekVars, pureVars>>

\* ------------------------------------------------------------------------
\* _exploit_http_default_creds (enter_engine.py lines 289-342)
\* ------------------------------------------------------------------------
HttpBasic(k) ==
    _event("output", <<"   ", HttpCreds[k][1], display_pass(HttpCreds[k][2])>>,
           "http_default_creds")

HttpForm(p, k) ==
    _event("output", <<"    POST", LoginPaths[p], HttpCreds[k][1], HttpCreds[k][2]>>,
           "http_default_creds")

RedirectTargets == {"/dashboard", "/admin", "/home", "/root/panel"}

\* lines 294-299: "import httpx" raises when the package is missing, and the
\* exception leaves the generator
HttpStart ==
    /\ pc = "x_dispatch" /\ exploit = "http_default_creds"
    /\ \E imported \in BOOLEAN :
        IF imported
        THEN /\ Relay(_event("command", <<"[>] Testing default credentials on">>, "http_default_creds"))
             /\ pc' = "http_client"
        ELSE ModuleCrash
    /\ UNCHANGED <<runVars, modVars, resVars, storeVars>>
    /\ UNCHANGED <<seekVars, pureVars>>

\* lines 308-309
HttpPhase1 ==
    /\ pc = "http_client"
    /\ inflight' = inflight + 1
    /\ Relay(_event("info", <<"[*] Phase 1: Testing HTTP Basic Auth">>, "http_default_creds"))
    /\ pc' = "http_p1"
    /\ UNCHANGED <<runVars, modVars, opened, storeVars>>
    /\ UNCHANGED <<seekVars, pureVars>>

\* lines 310-312, first credential
HttpBasicFirst ==
    /\ pc = "http_p1"
    /\ idx' = 1
    /\ Relay(HttpBasic(1))
    /\ pc' = "http_p1_try"
    /\ UNCHANGED <<runVars, idx2, mflag, resVars, storeVars>>
    /\ UNCHANGED <<seekVars, pureVars>>

\* lines 313-322: one Basic Auth request, up to the next yield
HttpBasicTry ==
    /\ pc = "http_p1_try"
    /\ opened' = opened + 1
    /\ \E res \in {"accepted", "denied"} :
        IF res = "accepted"
        THEN /\ Relay(_event("success",
                     <<"[+] Basic Auth SUCCESS:", HttpCreds[idx][1], display_pass(HttpCreds[idx][2])>>,
                     "http_default_creds"))
             /\ pc' = "http_ret"
             /\ UNCHANGED idx
        ELSE IF idx < Len(HttpCreds)
             THEN /\ idx' = idx + 1
                  /\ Relay(HttpBasic(idx + 1))
                  /\ pc' = "http_p1_try"
             ELSE /\ Relay(_event("info", <<"[*] Phase 2: Testing form-based login">>, "http_default_creds"))
                  /\ pc' = "http_p2"
                  /\ UNCHANGED idx
    /\ UNCHANGED <<runVars, idx2, mflag, inflight, storeVars>>
    /\ UNCHANGED <<seekVars, pureVars>>

\* lines 323-326, first path and credential
HttpFormFirst ==
    /\ pc = "http_p2"
    /\ idx2' = 1
    /\ idx' = 1
    /\ Relay(HttpForm(1, 1))
    /\ pc' = "http_p2_try"
    /\ UNCHANGED <<runVars, mflag, resVars, storeVars>>
    /\ UNCHANGED <<seekVars, pureVars>>

\* lines 327-342: one form POST, up to the next yield
HttpFormTry ==
    /\ pc = "http_p2_try"
    /\ opened' = opened + 1
    /\ \E res \in {"redirected", "denied"}, loc \in RedirectTargets :
        IF res = "redirected"
        THEN /\ Relay(_event("success",
                     <<"[+] Form login SUCCESS:", HttpCreds[idx][1], HttpCreds[idx][2], loc>>,
                     "http_default_creds"))
             /\ pc' = "http_ret"
             /\ UNCHANGED <<idx, idx2, inflight>>
        ELSE IF idx < FormCredCount
             THEN /\ idx' = idx + 1
                  /\ Relay(HttpForm(idx2, idx + 1))
                  /\ pc' = "http_p2_try"
                  /\ UNCHANGED <<idx2, inflight>>
             ELSE IF idx2 < Len(LoginPaths)
                  THEN /\ idx2' = idx2 + 1
                       /\ idx' = 1
                       /\ Relay(HttpForm(idx2 + 1, 1))
                       /\ pc' = "http_p2_try"
                       /\ UNCHANGED inflight
                  ELSE /\ inflight' = inflight - 1
                       /\ Relay(_event("error", <<"[-] No default credentials worked">>, "http_default_creds"))
                       /\ pc' = "mod_end"
                       /\ UNCHANGED <<idx, idx2>>
    /\ UNCHANGED <<runVars, mflag, storeVars>>
    /\ UNCHANGED <<seekVars, pureVars>>

\* lines 318 / 338: return inside "async with", the client is closed
HttpReturn ==
    /\ pc = "http_ret"
    /\ inflight' = inflight - 1
    /\ ModuleReturn
    /\ UNCHANGED <<runVars, modVars, opened, storeVars>>
    /\ UNCHANGED <<seekVars, pureVars>>

\* ------------------------------------------------------------------------
\* _exploit_smb_null_session (enter_engine.py lines 345-385)
\* ------------------------------------------------------------------------
\* line 350
SmbStart ==
    /\ pc = "x_dispatch" /\ exploit = "smb_null_session"
    /\ Relay(_event("command", <<"[>] Testing SMB null session on">>, "smb_null_session"))
    /\ pc' = "smb_which"
    /\ UNCHANGED <<runVars, modVars, resVars, storeVars>>
    /\ UNCHANGED <<seekVars, pureVars>>

\* lines 352-355, 374-375
SmbWhich ==
    /\ pc = "smb_which"
    /\ \E smb_client \in BOOLEAN :
        IF smb_client
        THEN /\ Relay(_event("info", <<"[*] Using smbclient for SMB enumeration">>, "smb_null_session"))
             /\ pc' = "smb_run"
        ELSE /\ Relay(_event("info", <<"[*] smbclient not available, basic port probe only">>, "smb_null_session"))
             /\ pc' = "smb_probe"
    /\ UNCHANGED <<runVars, modVars, resVars, storeVars>>
    /\ UNCHANGED <<seekVars, pureVars>>

SmbVerdict(shares) ==
    IF shares
    THEN _event("success", <<"[+] SMB null session SUCCESSFUL - shares enumerated">>, "smb_null_session")
    ELSE _event("error", <<"[-] SMB null session failed:">>, "smb_null_session")

\* lines 356-373: run smbclient; its output has n lines and names shares or not
SmbRun ==
    /\ pc = "smb_run"
    /\ opened' = opened + 1
    /\ \E res \in {"exited", "timeout", "spawn_error"} :
        IF res = "exited"
        THEN \E n \in 0..MaxOutLines, shares \in BOOLEAN :
             /\ shares => n >= 1
             /\ UNCHANGED inflight
             /\ IF n = 0
                THEN /\ Relay(SmbVerdict(FALSE))
                     /\ pc' = "mod_end"
                     /\ UNCHANGED <<idx2, mflag>>
                ELSE /\ Relay(_event("output", <<"    line">>, "smb_null_session"))
                     /\ idx2' = n - 1
                     /\ mflag' = IF shares THEN "Sharename" ELSE "noshare"
                     /\ pc' = "smb_lines"
        ELSE /\ inflight' = IF res = "timeout" THEN inflight + 1 ELSE inflight
             /\ Relay(_event("error", <<"[!] smbclient failed:">>, "smb_null_session"))
             /\ pc' = "mod_end"
             /\ UNCHANGED <<idx2, mflag>>
    /\ UNCHANGED <<runVars, idx, storeVars>>
    /\ UNCHANGED <<seekVars, pureVars>>

\* lines 366-371
SmbLines ==
    /\ pc = "smb_lines"
    /\ IF idx2 > 0
       THEN /\ Relay(_event("output", <<"    line">>, "smb_null_session"))
            /\ idx2' = idx2 - 1
            /\ pc' = "smb_lines"
       ELSE /\ Relay(SmbVerdict(mflag = "Sharename"))
            /\ pc' = "mod_end"
            /\ UNCHANGED idx2
    /\ UNCHANGED <<runVars, idx, mflag, resVars, storeVars>>
    /\ UNCHANGED <<seekVars, pureVars>>

\* lines 376-380, 384-385
SmbProbe ==
    /\ pc = "smb_probe"
    /\ opened' = opened + 1
    /\ \E connected \in BOOLEAN :
        IF connected
        THEN /\ inflight' = inflight + 1
             /\ Relay(_event("output", <<"    SMB port is open">>, "smb_null_session"))
             /\ pc' = "smb_close"
        ELSE /\ Relay(_event("error", <<"[!] Cannot connect to SMB port:">>, "smb_null_session"))
             /\ pc' = "mod_end"
             /\ UNCHANGED inflight
    /\ UNCHANGED <<runVars, modVars, storeVars>>
    /\ UNCHANGED <<seekVars, pureVars>>

\* lines 381-385
SmbClose ==
    /\ pc = "smb_close"
    /\ inflight' = inflight - 1
    /\ \E closed \in BOOLEAN :
        IF closed
        THEN Relay(_event("info", <<"[*] Install smbclient for full SMB enumeration">>, "smb_null_session"))
        ELSE Relay(_event("error", <<"[!] Cannot connect to SMB port:">>, "smb_null_session"))
    /\ pc' = "mod_end"
    /\ UNCHANGED <<runVars, modVars, opened, storeVars>>
    /\ UNCHANGED <<seekVars, pureVars>>

\* ------------------------------------------------------------------------
\* _exploit_banner_grab (enter_engine.py lines 388-418) and the else branch
\* of run_exploit (lines 116-117)
\* ------------------------------------------------------------------------
BannerFailed == _event("error", <<"[!] Connection failed:">>, "banner_grab")
BannerTimeout == _event("info", <<"[*] No banner received (timeout)">>, "banner_grab")

\* line 393; for an id outside the registry, run_exploit line 117
BannerStart ==
    /\ pc = "x_dispatch"
    /\ exploit \notin {"ssh_bruteforce", "ftp_anonymous", "http_default_creds", "smb_null_session"}
    /\ IF exploit = "banner_grab"
       THEN /\ Relay(_event("command", <<"[>] Grabbing banner from">>, "banner_grab"))
            /\ pc' = "bg_conn"
       ELSE /\ Relay(_event("error", <<"[!] Unknown exploit module:", exploit>>, exploit))
            /\ pc' = "mod_end"
    /\ UNCHANGED <<runVars, modVars, resVars, storeVars>>
    /\ UNCHANGED <<seekVars, pureVars>>

\* lines 395-413, up to the next yield
BannerConnect ==
    /\ pc = "bg_conn"
    /\ opened' = opened + 1
    /\ \E net \in {"refused", "read_timeout", "read_fault", "banner",
                    "eof_fault", "eof_timeout", "eof_response"} :
        /\ inflight' = IF net = "refused" THEN inflight ELSE inflight + 1
        /\ CASE net \in {"refused", "read_fault", "eof_fault"} ->
                  /\ Relay(BannerFailed)
                  /\ pc' = "mod_end"
                  /\ UNCHANGED <<idx2, mflag>>
             [] net \in {"read_timeout", "eof_timeout"} ->
                  /\ Relay(BannerTimeout)
                  /\ pc' = "bg_close"
                  /\ UNCHANGED <<idx2, mflag>>
             [] net = "banner" ->
                  \E n \in 1..MaxOutLines :
                  /\ Relay(_event("output", <<"    line">>, "banner_grab"))
                  /\ idx2' = n - 1
                  /\ mflag' = "banner"
                  /\ pc' = "bg_lines"
             [] net = "eof_response" ->
                  \E n \in 0..MaxOutLines :
                  IF n = 0
                  THEN /\ Relay(_event("success", <<"[+] HTTP response captured">>, "banner_grab"))
                       /\ pc' = "bg_close"
                       /\ UNCHANGED <<idx2, mflag>>
                  ELSE /\ Relay(_event("output", <<"    line">>, "banner_grab"))
                       /\ idx2' = n - 1
                       /\ mflag' = "http"
                       /\ pc' = "bg_lines"
    /\ UNCHANGED <<runVars, idx, storeVars>>
    /\ UNCHANGED <<seekVars, pureVars>>

\* lines 402-404 / 409-411
BannerLines ==
    /\ pc = "bg_lines"
    /\ IF idx2 > 0
       THEN /\ Relay(_event("output", <<"    line">>, "banner_grab"))
            /\ idx2' = idx2 - 1
            /\ pc' = "bg_lines"
       ELSE /\ Relay(_event("success",
                    <<IF mflag = "banner" THEN "[+] Banner captured"
                                          ELSE "[+] HTTP response captured">>,
                    "banner_grab"))
            /\ pc' = "bg_close"
            /\ UNCHANGED idx2
    /\ UNCHANGED <<runVars, idx, mflag, resVars, storeVars>>
    /\ UNCHANGED <<seekVars, pureVars>>

\* lines 415-418, then the module returns
BannerClose ==
    /\ pc = "bg_close"
    /\ inflight' = inflight - 1
    /\ \E closed \in BOOLEAN :
        IF closed
        THEN ModuleReturn
        ELSE Relay(BannerFailed) /\ pc' = "mod_end"
    /\ UNCHANGED <<runVars, modVars, opened, storeVars>>
    /\ UNCHANGED <<seekVars, pureVars>>

\* ------------------------------------------------------------------------
\* The consumer of the event stream goes away (routers/seek_enter.py lines
\* 76-79: the response task is cancelled while it iterates run_enter).  The
\* generators are unwound from the point where they stand: a connection held
\* by "async with" (asyncssh.connect, httpx.AsyncClient) is closed on the way
\* out; a stream writer or a helper process held in a plain local is not,
\* because no module has a finally clause, and the lines after the point are
\* never run.
\* ------------------------------------------------------------------------
HeldByContextManager ==
    \/ exploit = "http_default_creds"
    \/ exploit = "ssh_bruteforce" /\ mflag = "asyncssh"

ConsumerDetach ==
    /\ pc \notin {"idle", "done", "raised", "cancelled"}
    /\ pc' = "cancelled"
    /\ inflight' = IF HeldByContextManager THEN 0 ELSE inflight
    /\ UNCHANGED <<runVars, stream, emitted, success, access_level, loot, modVars, opened, storeVars>>
    /\ UNCHANGED <<seekVars, pureVars>>

\* ------------------------------------------------------------------------
\* The Enter specification
\* ------------------------------------------------------------------------
EnterInit ==
    /\ pc = "idle"
    /\ req = NoRequest
    /\ sid = 0
    /\ nextId = 1
    /\ exploit = ""
    /\ stream = <<>>
    /\ emitted = <<>>
    /\ success = FALSE
    /\ access_level = ""
    /\ loot = <<>>
    /\ idx = 0 /\ idx2 = 0 /\ mflag = ""
    /\ opened = 0 /\ inflight = 0
    /\ sessions = <<>>
    /\ history = <<>>
    /\ runs = 0

EnterNext ==
    \/ StartEnter \/ EnterNoModule \/ EnterSelected
    \/ RunExploitInit \/ RunExploitTarget \/ RunExploitBanner
    \/ ModuleEnd \/ RunExploitComplete \/ EnterStoreResult \/ EnterFinish
    \/ SshStart \/ SshImport \/ SshFallbackInfo \/ SshWhich \/ SshLoopFirst
    \/ SshTry \/ SshShellOutput \/ SshAccessLevel \/ SshBreak \/ SshNoTool \/ SshNoCreds
    \/ FtpStart \/ FtpConnect \/ FtpUser \/ FtpPass \/ FtpCheck \/ FtpPwd \/ FtpQuit
    \/ HttpStart \/ HttpPhase1 \/ HttpBasicFirst \/ HttpBasicTry \/ HttpFormFirst
    \/ HttpFormTry \/ HttpReturn
    \/ SmbStart \/ SmbWhich \/ SmbRun \/ SmbLines \/ SmbProbe \/ SmbClose
    \/ BannerStart \/ BannerConnect \/ BannerLines \/ BannerClose
    \/ ConsumerDetach

\* ------------------------------------------------------------------------
\* Idle values of the three parts
\* ------------------------------------------------------------------------
NoTarget == [kind |-> "junk"]
NoResult == [scan_id |-> 0, hosts_scanned |-> 0, hosts_alive |-> 0, hosts |-> <<>>]

SeekIdle ==
    /\ spc = "idle"
    /\ sreq = [raw |-> NoTarget, target |-> NoTarget, ports |-> <<>>]
    /\ scan_id = 0
    /\ netenv = <<>>
    /\ all_hosts = <<>>
    /\ port_list = <<>>
    /\ alive_hosts = {}
    /\ cursor = 0
    /\ found = <<>>
    /\ services = <<>>
    /\ result = NoResult
    /\ probes = 0
    /\ on_progress = FALSE
    /\ progress = <<>>
    /\ seek_cache = <<>>
    /\ response = "none"
    /\ seeks = 0

PureIdle ==
    /\ fn = "none"
    /\ arg = <<>>
    /\ out = <<>>

\* ------------------------------------------------------------------------
\* Seek: the HTTP handler (routers/seek_enter.py), run_seek
\* (seek_enter_service.py) and seek_scan with its two paths (seek_scanner.py)
\* ------------------------------------------------------------------------
MaxSeeks == 1

HostConcurrency == 50
PortBatchSize == 200

ProbePorts == <<22, 80, 443, 445, 3389, 8080, 21, 23, 53, 3306>>

\* nmap_scanner._COMMON_SERVICES
CommonService(port) ==
    CASE port = 21 -> "ftp" [] port = 22 -> "ssh" [] port = 23 -> "telnet"
      [] port = 25 -> "smtp" [] port = 53 -> "dns" [] port = 80 -> "http"
      [] port = 110 -> "pop3" [] port = 111 -> "rpcbind" [] port = 135 -> "msrpc"
      [] port = 139 -> "netbios-ssn" [] port = 143 -> "imap" [] port = 443 -> "https"
      [] port = 445 -> "microsoft-ds" [] port = 465 -> "smtps" [] port = 587 -> "submission"
      [] port = 631 -> "ipp" [] port = 993 -> "imaps" [] port = 995 -> "pop3s"
      [] port = 1433 -> "mssql" [] port = 1521 -> "oracle" [] port = 1723 -> "pptp"
      [] port = 3306 -> "mysql" [] port = 3389 -> "ms-wbt-server" [] port = 5432 -> "postgresql"
      [] port = 5900 -> "vnc" [] port = 5901 -> "vnc-1" [] port = 6379 -> "redis"
      [] port = 8080 -> "http-proxy" [] port = 8443 -> "https-alt" [] port = 8888 -> "http-alt"
      [] port = 9090 -> "zeus-admin" [] port = 9200 -> "elasticsearch" [] port = 27017 -> "mongodb"
      [] OTHER -> ""

\* How a host answers TCP connects during one scan:
\*   dead          no answer on any port (every connect times out)
\*   rst           up, every port closed (connection refused)
\*   ssh           port 22 open, every other port closed
\*   ssh_filtered  port 22 open, no answer on any other port
\*   hidden        port 20 open, no answer on any other port
\*   unreachable   every connect fails with an OSError (no route to host)
HostBehaviours == {"dead", "rst", "ssh", "ssh_filtered", "hidden"}

ScanBehaviours == HostBehaviours \cup {"unreachable"}

\* what asyncio.open_connection meets within the timeout
\* (nmap_scanner.py lines 108-111, 116, 119)
TcpAnswer(behaviour, port) ==
    CASE behaviour = "dead" -> "timeout"
      [] behaviour = "rst" -> "refused"
      [] behaviour = "ssh" -> IF port = 22 THEN "connected" ELSE "refused"
      [] behaviour = "ssh_filtered" -> IF port = 22 THEN "connected" ELSE "timeout"
      [] behaviour = "hidden" -> IF port = 20 THEN "connected" ELSE "timeout"
      [] behaviour = "unreachable" -> "oserror"

\* nmap_scanner._scan_port_socket (lines 101-122): the state of the
\* PortScanResult, or "none" for the None returned on a timeout
_scan_port_socket_strict(behaviour, port) ==
    CASE TcpAnswer(behaviour, port) = "connected" -> "open"
      [] OTHER -> "none"
_scan_port_socket(behaviour, port) ==
    CASE TcpAnswer(behaviour, port) = "connected" -> "open"
      [] TcpAnswer(behaviour, port) = "refused" -> "closed"
      [] OTHER -> "none"

\* seek_scanner._probe_host (lines 206-213)
_probe_host_open(behaviour) ==
    \E k \in 1..Len(ProbePorts) : _scan_port_socket(behaviour, ProbePorts[k]) = "open"
_probe_host(behaviour) ==
    \E k \in 1..Len(ProbePorts) : _scan_port_socket(behaviour, ProbePorts[k]) # "none"

SeekTargets ==
    { [kind |-> "ip", addr |-> 167772165],
      [kind |-> "cidr", addr |-> 167772165, prefix |-> 30],
      [kind |-> "cidr", addr |-> 167772165, prefix |-> 8],
      [kind |-> "cidr", addr |-> 167772165, prefix |-> 33],
      [kind |-> "dash", addr |-> 167772165, end |-> 6],
      [kind |-> "dash", addr |-> 167772165, end |-> 3],
      [kind |-> "junk"],
      [kind |-> "dirty", inner |-> [kind |-> "junk"]],
      [kind |-> "dirty", inner |-> [kind |-> "ip", addr |-> 167772165]] }

SeekPortSpecs ==
    { <<[kind |-> "single", v |-> 22]>>,
      <<[kind |-> "single", v |-> 80], [kind |-> "single", v |-> 443]>>,
      <<[kind |-> "range", lo |-> 20, hi |-> 23]>>,
      <<[kind |-> "bad"]>> }

\* the addresses the scan can meet: those of the target, or two of them
\* when the target is too large to list
ScanHosts(target) ==
    IF IsNetwork(target) /\ num_addresses(target) > HostCap
    THEN {network_address(target) + 1, network_address(target) + 2}
    ELSE SeqRange(_expand_hosts(target))

scanVars == <<all_hosts, port_list, alive_hosts, cursor, found, services, result, probes,
              progress>>

ScanReset ==
    /\ all_hosts' = <<>>
    /\ port_list' = <<>>
    /\ alive_hosts' = {}
    /\ cursor' = 0
    /\ found' = <<>>
    /\ services' = <<>>
    /\ result' = NoResult
    /\ probes' = 0
    /\ progress' = <<>>

\* routers/seek_enter.py lines 34-36
SeekRequest ==
    /\ spc \in {"idle", "s_done"}
    /\ seeks < MaxSeeks
    /\ seeks' = seeks + 1
    /\ \E raw \in SeekTargets, ps \in SeekPortSpecs :
        LET cidr == sanitize_input(raw)
        IN /\ sreq' = [raw |-> raw, target |-> cidr, ports |-> ps]
           /\ IF validate_ip_range(cidr)
              THEN /\ spc' = "s_start"
                   /\ response' = "none"
                   /\ netenv' \in [ScanHosts(cidr) -> HostBehaviours]
              ELSE /\ spc' = "s_done"
                   /\ response' = "400"
                   /\ netenv' = <<>>
    /\ scan_id' = 0
    /\ on_progress' = FALSE
    /\ ScanReset
    /\ UNCHANGED <<nmap_available, seek_cache>>
    /\ UNCHANGED <<enterVars, pureVars, sharedVars>>

\* run_seek lines 67-68 and seek_scan lines 41-44.  _store_history may raise
\* before the try block is entered; the handler answers 500 (router line 51).
RunSeekStart ==
    /\ spc = "s_start"
    /\ scan_id' = nextId
    /\ nextId' = nextId + 1
    /\ \E dbOk \in BOOLEAN :
        IF dbOk
        THEN /\ history' = (nextId :> "running") @@ history
             /\ spc' = IF nmap_available THEN "n_ping" ELSE "k_expand"
             /\ UNCHANGED response
        ELSE /\ spc' = "s_done"
             /\ response' = "500"
             /\ UNCHANGED history
    /\ UNCHANGED <<sreq, nmap_available, netenv, scanVars, seek_cache, seeks, on_progress>>
    /\ UNCHANGED <<enterVars, pureVars>>

SeekResultAliveOnly(scanned, alive, hosts) ==
    [scan_id |-> 0, hosts_scanned |-> alive, hosts_alive |-> alive, hosts |-> hosts]
SeekResult(scanned, alive, hosts) ==
    [scan_id |-> 0, hosts_scanned |-> scanned, hosts_alive |-> alive, hosts |-> hosts]

\* "if on_progress: await on_progress(pct, ...)" for each pct of q in turn.
\* The source computes pct as int() of a float product; for the host and
\* port counts of ScanTargets and ScanPortSpecs that is the integer quotient
\* used in SockProbeBatch and SockSweepBatch.
Report(q) == IF on_progress THEN progress \o q ELSE progress

\* _seek_with_sockets lines 188-204
SockExpand ==
    /\ spc = "k_expand"
    /\ all_hosts' = _expand_hosts(sreq.target)
    /\ IF all_hosts' = <<>>
       THEN /\ result' = SeekResult(0, 0, <<>>)
            /\ spc' = "s_return"
            /\ UNCHANGED port_list
       ELSE IF _parse_port_range(sreq.ports).raised
            THEN /\ spc' = "s_raise"
                 /\ UNCHANGED <<port_list, result>>
            ELSE /\ port_list' = _parse_port_range(sreq.ports).ports
                 /\ spc' = "k_probe"
                 /\ UNCHANGED result
    /\ progress' = IF spc' = "k_probe" THEN Report(<<5>>) ELSE progress
    /\ UNCHANGED <<alive_hosts, found, services, probes>>
    /\ cursor' = 0
    /\ UNCHANGED <<sreq, scan_id, nmap_available, netenv, seek_cache, response, seeks, on_progress>>
    /\ UNCHANGED <<enterVars, pureVars, sharedVars>>

\* all_hosts[i:i + n] for a 0-based i
SliceToEnd(q, i, n) == SubSeq(q, i + 1, Len(q))
Slice(q, i, n) == SubSeq(q, i + 1, Min2(i + n, Len(q)))

\* _seek_with_sockets lines 215-244: one batch of the liveness probe, up to
\* the next gather
SockProbeBatch ==
    /\ spc = "k_probe"
    /\ LET batch == Slice(all_hosts, cursor, HostConcurrency)
           alive == alive_hosts \cup {h \in SeqRange(batch) : _probe_host(netenv[h])}
           last == cursor + HostConcurrency >= Len(all_hosts)
           probed == Min2(cursor + HostConcurrency, Len(all_hosts))
           pct == (probed * 40) \div Len(all_hosts) + 5
       IN /\ alive_hosts' = alive
          /\ probes' = probes + Len(batch) * Len(ProbePorts)
          /\ progress' = Report(<<Min2(pct, 45)>>
                                \o (IF last THEN <<50>> ELSE <<>>)
                                \o (IF last /\ alive = {} THEN <<100>> ELSE <<>>))
          /\ IF ~last
             THEN /\ cursor' = cursor + HostConcurrency
                  /\ spc' = "k_probe"
                  /\ UNCHANGED result
             ELSE IF alive = {}
                  THEN /\ result' = SeekResult(Len(all_hosts), 0, <<>>)
                       /\ spc' = "s_return"
                       /\ UNCHANGED cursor
                  ELSE /\ cursor' = [host |-> 1, i |-> 0]
                       /\ spc' = "k_sweep"
                       /\ UNCHANGED result
    /\ UNCHANGED <<all_hosts, port_list, found, services>>
    /\ UNCHANGED <<sreq, scan_id, nmap_available, netenv, seek_cache, response, seeks, on_progress>>
    /\ UNCHANGED <<enterVars, pureVars, sharedVars>>

DiscoveredService(port) == [port |-> port, protocol |-> "tcp", service |-> CommonService(port)]

DiscoveredHost(ip, svcs) == [ip |-> ip, state |-> "up", services |-> svcs]

\* the open ports of a batch, as DiscoveredService, in batch order
OpenServicesAnswered(behaviour, batch) ==
    LET Open(p) == _scan_port_socket(behaviour, p) # "none"
        open == SelectSeq(batch, Open)
    IN [k \in 1..Len(open) |-> DiscoveredService(open[k])]
OpenServices(behaviour, batch) ==
    LET Open(p) == _scan_port_socket(behaviour, p) = "open"
        open == SelectSeq(batch, Open)
    IN [k \in 1..Len(open) |-> DiscoveredService(open[k])]

\* _seek_with_sockets lines 246-283: one port batch of one alive host, up to
\* the next gather; alive_list = sorted(alive_hosts)
SockSweepBatch ==
    /\ spc = "k_sweep"
    /\ LET alive_list == SortedSeq(alive_hosts)
           host_ip == alive_list[cursor.host]
           batch == Slice(port_list, cursor.i, PortBatchSize)
           svcs == services \o OpenServices(netenv[host_ip], batch)
           lastBatch == cursor.i + PortBatchSize >= Len(port_list)
           hosts == IF svcs # <<>> THEN Append(found, DiscoveredHost(host_ip, svcs)) ELSE found
           total_port_checks == Len(alive_list) * Len(port_list)
           completed == (cursor.host - 1) * Len(port_list)
                        + Min2(cursor.i + PortBatchSize, Len(port_list))
           pct == (completed * 45) \div total_port_checks + 50
           lastHost == cursor.host >= Len(alive_list)
       IN /\ probes' = probes + Len(batch)
          /\ progress' = Report((IF batch # <<>> THEN <<Min2(pct, 95)>> ELSE <<>>)
                                \o (IF lastBatch /\ lastHost THEN <<100>> ELSE <<>>))
          /\ IF ~lastBatch
             THEN /\ services' = svcs
                  /\ cursor' = [cursor EXCEPT !.i = cursor.i + PortBatchSize]
                  /\ spc' = "k_sweep"
                  /\ UNCHANGED <<found, result>>
             ELSE /\ found' = hosts
                  /\ services' = <<>>
                  /\ IF cursor.host < Len(alive_list)
                     THEN /\ cursor' = [host |-> cursor.host + 1, i |-> 0]
                          /\ spc' = "k_sweep"
                          /\ UNCHANGED result
                     ELSE /\ result' = SeekResult(Len(all_hosts), Len(hosts), hosts)
                          /\ spc' = "s_return"
                          /\ UNCHANGED cursor
    /\ UNCHANGED <<all_hosts, port_list, alive_hosts>>
    /\ UNCHANGED <<sreq, scan_id, nmap_available, netenv, seek_cache, response, seeks, on_progress>>
    /\ UNCHANGED <<enterVars, pureVars, sharedVars>>

\* the host sets an nmap report can name: any subset of a small set; of a
\* larger set none, one, the even addresses, or all
SomeSubsets(S) ==
    IF Cardinality(S) <= 2 THEN SUBSET S
    ELSE {{}, {CHOOSE h \in S : \A g \in S : h <= g}, {h \in S : h % 2 = 0}, S}

\* _seek_with_nmap lines 51-71: the ping scan reports some hosts up, or the
\* nmap run raises
NmapPing ==
    /\ spc = "n_ping"
    /\ \E failed \in BOOLEAN, live \in SomeSubsets(DOMAIN netenv) :
        IF failed
        THEN /\ spc' = "s_raise"
             /\ progress' = Report(<<5>>)
             /\ UNCHANGED <<alive_hosts, result>>
        ELSE /\ alive_hosts' = live
             /\ progress' = Report(<<5, 25>>)
             /\ IF live = {}
                THEN /\ result' = SeekResult(0, 0, <<>>)
                     /\ spc' = "s_return"
                ELSE /\ spc' = "n_scan"
                     /\ UNCHANGED result
    /\ UNCHANGED <<all_hosts, port_list, cursor, found, services, probes>>
    /\ UNCHANGED <<sreq, scan_id, nmap_available, netenv, seek_cache, response, seeks, on_progress>>
    /\ UNCHANGED <<enterVars, pureVars, sharedVars>>

RECURSIVE NmapHosts(_, _)
NmapHosts(ips, ports) ==
    IF ips = <<>> THEN <<>>
    ELSE <<DiscoveredHost(Head(ips), OpenServices(netenv[Head(ips)], ports))>>
         \o NmapHosts(Tail(ips), ports)

\* _seek_with_nmap lines 73-139: the service scan reports some of the live
\* hosts with their open ports, or the nmap run raises (as it does on a port
\* specification it cannot read)
NmapServiceScan ==
    /\ spc = "n_scan"
    /\ \E failed \in BOOLEAN, seen \in SomeSubsets(alive_hosts) :
        IF failed \/ _parse_port_range(sreq.ports).raised
        THEN /\ spc' = "s_raise"
             /\ UNCHANGED <<found, result, progress>>
        ELSE /\ progress' = Report(<<70, 100>>)
             /\ found' = NmapHosts(SortedSeq(seen), _parse_port_range(sreq.ports).ports)
             /\ result' = SeekResult(Cardinality(alive_hosts), Len(found'), found')
             /\ spc' = "s_return"
    /\ UNCHANGED <<all_hosts, port_list, alive_hosts, cursor, services, probes>>
    /\ UNCHANGED <<sreq, scan_id, nmap_available, netenv, seek_cache, response, seeks, on_progress>>
    /\ UNCHANGED <<enterVars, pureVars, sharedVars>>

\* run_seek lines 72-88 (and 90-93 when persisting raises), router 40-51
RunSeekStoreBare ==
    /\ spc = "s_return"
    /\ seek_cache' = (scan_id :> result) @@ seek_cache
    /\ \E dbOk \in BOOLEAN :
        IF dbOk
        THEN /\ history' = [history EXCEPT ![scan_id] = "completed"]
             /\ response' = "200"
        ELSE /\ history' \in {history, [history EXCEPT ![scan_id] = "error"]}
             /\ response' = "500"
    /\ spc' = "s_done"
    /\ UNCHANGED <<sreq, scan_id, nmap_available, netenv, scanVars, seeks, nextId, on_progress>>
    /\ UNCHANGED <<enterVars, pureVars>>
RunSeekStore ==
    /\ spc = "s_return"
    /\ seek_cache' = (scan_id :> [result EXCEPT !.scan_id = scan_id]) @@ seek_cache
    /\ \E dbOk \in BOOLEAN :
        IF dbOk
        THEN /\ history' = [history EXCEPT ![scan_id] = "completed"]
             /\ response' = "200"
        ELSE /\ history' \in {history, [history EXCEPT ![scan_id] = "error"]}
             /\ response' = "500"
    /\ spc' = "s_done"
    /\ UNCHANGED <<sreq, scan_id, nmap_available, netenv, scanVars, seeks, nextId, on_progress>>
    /\ UNCHANGED <<enterVars, pureVars>>

\* run_seek lines 90-93: seek_scan raised; router line 51
RunSeekFail ==
    /\ spc = "s_raise"
    /\ history' \in {history, [history EXCEPT ![scan_id] = "error"]}
    /\ response' = "500"
    /\ spc' = "s_done"
    /\ UNCHANGED <<sreq, scan_id, nmap_available, netenv, scanVars, seek_cache, seeks, nextId, on_progress>>
    /\ UNCHANGED <<enterVars, pureVars>>

\* get_seek_result (seek_enter_service.py lines 95-97): the cached result, or
\* None
get_seek_result(id) ==
    IF id \in DOMAIN seek_cache
    THEN [found |-> TRUE, result |-> seek_cache[id]]
    ELSE [found |-> FALSE, result |-> NoResult]

SeekInit == EnterInit /\ SeekIdle /\ nmap_available \in BOOLEAN /\ PureIdle

SeekNext ==
    \/ SeekRequest \/ RunSeekStart
    \/ SockExpand \/ SockProbeBatch \/ SockSweepBatch
    \/ NmapPing \/ NmapServiceScan
    \/ RunSeekStore \/ RunSeekFail

SpecSeek == SeekInit /\ [][SeekNext]_vars

\* ------------------------------------------------------------------------
\* seek_scan called directly (seek_scanner.py), with or without a progress
\* sink, on targets and port lists long enough for several batches
\* ------------------------------------------------------------------------
ScanTargets ==
    { [kind |-> "ip", addr |-> 167772165],
      [kind |-> "cidr", addr |-> 167772165, prefix |-> 30],
      [kind |-> "cidr", addr |-> 167772165, prefix |-> 8],
      [kind |-> "dash", addr |-> 167772165, end |-> 60],
      [kind |-> "junk"] }

ScanPortSpecs ==
    SeekPortSpecs \cup { <<[kind |-> "range", lo |-> 1, hi |-> 250]>> }

\* how the hosts of H answer: every assignment for up to two hosts; for more,
\* one behaviour for the even addresses and one for the odd
EnvChoices(H) ==
    IF Cardinality(H) <= 2 THEN [H -> ScanBehaviours]
    ELSE {[h \in H |-> IF h % 2 = 0 THEN a ELSE b] : a, b \in ScanBehaviours}

\* seek_scan lines 35-44
ScanCall ==
    /\ spc \in {"idle", "s_return", "s_raise"}
    /\ seeks < MaxSeeks
    /\ seeks' = seeks + 1
    /\ \E cidr \in ScanTargets, ps \in ScanPortSpecs :
        /\ sreq' = [raw |-> cidr, target |-> cidr, ports |-> ps]
        /\ netenv' \in EnvChoices(ScanHosts(cidr))
    /\ on_progress' \in BOOLEAN
    /\ spc' = IF nmap_available THEN "n_ping" ELSE "k_expand"
    /\ ScanReset
    /\ UNCHANGED <<scan_id, nmap_available, seek_cache, response>>
    /\ UNCHANGED <<enterVars, pureVars, sharedVars>>

ScanNext ==
    \/ ScanCall
    \/ SockExpand \/ SockProbeBatch \/ SockSweepBatch
    \/ NmapPing \/ NmapServiceScan

SpecScan == SeekInit /\ [][ScanNext]_vars

\* ------------------------------------------------------------------------
\* The pure functions applied to bounded inputs
\* ------------------------------------------------------------------------
MaxParts == 3

Addrs == {167772160, 167772165, 167772414, 167772415}

CidrPrefixes == {8, 15, 24, 29, 30, 31, 32, 33}

DashEnds == {-1, 0, 5, 7, 255, 256}

PureTargets ==
    {[kind |-> "ip", addr |-> a] : a \in Addrs}
    \cup {[kind |-> "cidr", addr |-> a, prefix |-> p] : a \in Addrs, p \in CidrPrefixes}
    \cup {[kind |-> "dash", addr |-> a, end |-> e] : a \in Addrs, e \in DashEnds}
    \cup {[kind |-> "junk"]}

PortParts ==
    {[kind |-> "single", v |-> v] : v \in {0, 1, 22, 80, 65535, 65536}}
    \cup {[kind |-> "range", lo |-> r[1], hi |-> r[2]] :
            r \in {<<1, 3>>, <<20, 23>>, <<0, 2>>, <<23, 20>>, <<3, -1>>,
                   <<65534, 65535>>, <<65534, 65537>>, <<1000, 1010>>}}
    \cup {[kind |-> "bad"]}

PortSpecs == UNION {[1..n -> PortParts] : n \in 1..MaxParts}

SelectServices ==
    {"ssh", "ftp", "http", "https", "http-proxy", "https-alt",
     "microsoft-ds", "netbios-ssn", "*", "", "mysql"}

SelectPorts == {1, 21, 22, 2222, 80, 443, 8080, 8443, 8888, 139, 445, 3306}

SelectIds == DOMAIN EXPLOIT_REGISTRY \cup {"auto", "bogus", ""}

\* the function is applied once, to an argument drawn from the input set
ApplyExpandHosts ==
    /\ fn = "none"
    /\ \E t \in PureTargets :
        /\ fn' = "_expand_hosts"
        /\ arg' = t
        /\ out' = _expand_hosts(t)
    /\ UNCHANGED <<enterVars, seekVars, sharedVars>>

\* the function is applied once, to an argument drawn from the input set
ApplyParsePortRange ==
    /\ fn = "none"
    /\ \E ps \in PortSpecs :
        /\ fn' = "_parse_port_range"
        /\ arg' = ps
        /\ out' = _parse_port_range(ps)
    /\ UNCHANGED <<enterVars, seekVars, sharedVars>>

\* the function is applied once, to an argument drawn from the input set
ApplySelectExploit ==
    /\ fn = "none"
    /\ \E s \in SelectServices, p \in SelectPorts, e \in SelectIds :
        /\ fn' = "select_exploit"
        /\ arg' = [service |-> s, port |-> p, exploit_id |-> e]
        /\ out' = select_exploit(s, p, e)
    /\ UNCHANGED <<enterVars, seekVars, sharedVars>>

\* ------------------------------------------------------------------------
\* _parse_vulners_output (seek_scanner.py lines 142-172)
\*
\* The script text is the sequence of its lines after strip(); a line is
\* blank, a "cpe:" comment, a single word, or an identifier followed by a
\* score token.  A score token is a numeral (held in tenths) or a word that
\* float() rejects.
\* ------------------------------------------------------------------------
MaxVulnLines == 2

CvssMin == 0
CvssMax == 100

\* the "cves" entry of every module of EXPLOIT_REGISTRY is the empty list
RegistryCves(eid) == {}

ScoreTokens ==
    {[numeral |-> TRUE, tenths |-> t] : t \in {0, 75, 100, 105, -10}}
    \cup {[numeral |-> FALSE, tenths |-> 0]}

VulnLines ==
    {[kind |-> "blank"], [kind |-> "cpe"], [kind |-> "word"]}
    \cup {[kind |-> "finding", cve_id |-> "CVE-2021-0001", score |-> tok] : tok \in ScoreTokens}

VulnTexts == UNION {[1..n -> VulnLines] : n \in 0..MaxVulnLines}

\* lines 161-165: the first module that lists the identifier, or ""
RECURSIVE ExploitFor(_, _)
ExploitFor(k, cve_id) ==
    IF k > Len(RegistryOrder) THEN ""
    ELSE IF cve_id \in RegistryCves(RegistryOrder[k]) THEN RegistryOrder[k]
    ELSE ExploitFor(k + 1, cve_id)

\* lines 154-157: float(parts[1]), 0.0 when it raises ValueError
ScoreOf(tok) == IF tok.numeral THEN tok.tenths ELSE 0

\* lines 167-171 with the field constraint ge=0.0, le=10.0 of ServiceVuln
\* (models/seek_enter.py line 24): the constructor raises outside the range
ServiceVuln(cve_id, cvss) ==
    [raised |-> cvss < CvssMin \/ cvss > CvssMax,
     vuln |-> [cve_id |-> cve_id, cvss |-> cvss,
               exploit_available |-> ExploitFor(1, cve_id) # "",
               exploit_id |-> ExploitFor(1, cve_id)]]

RECURSIVE _parse_vulners_output(_)
_parse_vulners_output(raw) ==
    IF raw = <<>> THEN [raised |-> FALSE, vulns |-> <<>>]
    ELSE IF Head(raw).kind # "finding" THEN _parse_vulners_output(Tail(raw))
    ELSE LET sv == ServiceVuln(Head(raw).cve_id, ScoreOf(Head(raw).score))
             rest == _parse_vulners_output(Tail(raw))
         IN IF sv.raised \/ rest.raised
            THEN [raised |-> TRUE, vulns |-> <<>>]
            ELSE [raised |-> FALSE, vulns |-> <<sv.vuln>> \o rest.vulns]

\* the function is applied once, to an argument drawn from the input set
ApplyParseVulners ==
    /\ fn = "none"
    /\ \E raw \in VulnTexts :
        /\ fn' = "_parse_vulners_output"
        /\ arg' = raw
        /\ out' = _parse_vulners_output(raw)
    /\ UNCHANGED <<enterVars, seekVars, sharedVars>>

PureInit == EnterInit /\ SeekIdle /\ nmap_available = FALSE /\ PureIdle

PureNext ==
    \/ ApplyExpandHosts \/ ApplyParsePortRange \/ ApplySelectExploit
    \/ ApplyParseVulners

SpecPure == PureInit /\ [][PureNext]_vars

InitEnter == EnterInit /\ SeekIdle /\ nmap_available = FALSE /\ PureIdle

SpecEnter == InitEnter /\ [][EnterNext]_vars

\* ------------------------------------------------------------------------
\* Properties of the Enter part (SpecEnter)
\* ------------------------------------------------------------------------
CountType(type) == Cardinality({k \in 1..Len(stream) : stream[k].event_type = type})

StreamEnded == pc \in {"done", "raised"}

\* C1: every Enter run that ran a module and was consumed to its end has
\* exactly one event of kind complete in its stream, and it is the last one.
C1_ExactlyOneCompleteLast ==
    (pc = "done" /\ exploit # "") =>
        /\ CountType("complete") = 1
        /\ stream[Len(stream)].event_type = "complete"

\* C2: a stream without a success event holds at most one error event.
C2_AtMostOneError ==
    CountType("success") = 0 => CountType("error") <= 1

\* C3: a run whose module selection succeeded and whose stream has ended has
\* exactly one EnterResult in the session map, under its own session id and
\* holding the outcome of the run (success, failure or crash); an entry of
\* the map is never changed or removed afterwards.
ResultStored ==
    /\ sid \in DOMAIN sessions
    /\ sessions[sid] = EnterResult
    /\ Cardinality({k \in DOMAIN sessions : sessions[k].session_id = sid}) = 1

SessionsKept ==
    \A k \in DOMAIN sessions : k \in DOMAIN sessions' /\ sessions'[k] = sessions[k]

C3_ResultStoredOnce ==
    /\ []((StreamEnded /\ exploit # "") => ResultStored)
    /\ [][SessionsKept]_vars

Crashed == \E k \in 1..Len(stream) : stream[k].message = <<"[!] Module crashed:">>

C3_Witness ==
    /\ pc = "done"
    /\ Crashed
    /\ ResultStored
    /\ ~sessions[sid].success

\* C5: an explicit module id is used only when the registry has it; for an
\* unknown id the call ends at once with one error event, no module event is
\* emitted, no connection is opened and no EnterResult is stored.
C5_UnknownModuleRejected ==
    (pc # "idle" /\ req.exploit_id # "auto") =>
        IF req.exploit_id \in DOMAIN EXPLOIT_REGISTRY
        THEN /\ exploit \in {req.exploit_id, ""}
             /\ exploit = "" => (pc = "raised" /\ stream = <<>>)
        ELSE /\ exploit = ""
             /\ pc \in {"e_nosel", "done", "raised", "cancelled"}
             /\ pc # "raised" => (Len(stream) = 1 /\ stream[1].event_type = "error")
             /\ \A k \in 1..Len(stream) : stream[k].module = ""
             /\ opened = 0 /\ inflight = 0
             /\ sid \notin DOMAIN sessions

C5_Witness ==
    /\ pc = "done"
    /\ req.exploit_id = "bogus"
    /\ Len(stream) = 1
    /\ sessions = <<>>

\* ------------------------------------------------------------------------
\* Properties of the pure functions (SpecPure)
\* ------------------------------------------------------------------------
\* registry positions of the non-fallback modules that declare the service
\* or the port
AutoMatches(service, port) ==
    {k \in 1..Len(RegistryOrder) :
        /\ RegistryOrder[k] # "banner_grab"
        /\ \/ service \in EXPLOIT_REGISTRY[RegistryOrder[k]].services
           \/ port \in EXPLOIT_REGISTRY[RegistryOrder[k]].ports}

\* C4: with module id "auto", select_exploit returns the first non-fallback
\* module in registry order that declares the service or the port, and the
\* banner-grab module when there is none.
C4_AutoSelectsFirstMatch ==
    (fn = "select_exploit" /\ arg.exploit_id = "auto") =>
        LET M == AutoMatches(arg.service, arg.port)
        IN IF M = {}
           THEN out = "banner_grab"
           ELSE /\ out = RegistryOrder[CHOOSE k \in M : \A m \in M : k <= m]
                /\ Cardinality(M) = 1 => \A k \in M : out = RegistryOrder[k]

C4_Witness ==
    /\ fn = "select_exploit"
    /\ arg.exploit_id = "auto"
    /\ arg.service = "ftp" /\ arg.port = 22
    /\ Cardinality(AutoMatches(arg.service, arg.port)) = 2
    /\ out = "ssh_bruteforce"

\* the addresses of the block of a CIDR target, from the definition of a block
BlockOf(target) ==
    LET size == Pow2(AddrBits - target.prefix)
    IN {a \in (target.addr - size + 1)..(target.addr + size - 1) :
            a \div size = target.addr \div size}

UsableHosts(target) ==
    LET B == BlockOf(target)
    IN IF target.prefix >= AddrBits - 1
       THEN B
       ELSE {a \in B : (\E b \in B : b < a) /\ (\E b \in B : b > a)}

\* C6: for a CIDR target within the size cap, _expand_hosts returns the
\* usable host addresses of the block, each once, none from outside, in
\* ascending order.
C6_ExpandCidrExact ==
    (/\ fn = "_expand_hosts"
     /\ arg.kind = "cidr"
     /\ arg.prefix \in 0..AddrBits
     /\ Pow2(AddrBits - arg.prefix) <= HostCap) =>
        /\ SeqRange(out) = UsableHosts(arg)
        /\ \A j, k \in 1..Len(out) : j < k => out[j] < out[k]

C6_Witness ==
    /\ fn = "_expand_hosts"
    /\ arg.kind = "cidr"
    /\ arg.prefix = 29
    /\ arg.addr % 8 # 0
    /\ Len(out) = 6

\* a part names only port numbers
PartOfPorts(part) ==
    \/ part.kind = "single" /\ part.v \in PortMin..PortMax
    \/ part.kind = "range" /\ part.lo \in PortMin..PortMax /\ part.hi \in PortMin..PortMax

PartMembers(part) ==
    IF part.kind = "single" THEN {part.v} ELSE part.lo..part.hi

\* C9: for a port spec whose parts are ports and ranges of ports, the parser
\* returns the union of the listed ports and the members of the ranges,
\* without duplicates and in strictly ascending order.
C9_ParseIsSortedUnion ==
    (/\ fn = "_parse_port_range"
     /\ \A k \in 1..Len(arg) : PartOfPorts(arg[k])) =>
        /\ ~out.raised
        /\ SeqRange(out.ports) = UNION {PartMembers(arg[k]) : k \in 1..Len(arg)}
        /\ \A j, k \in 1..Len(out.ports) : j < k => out.ports[j] < out.ports[k]

C9_Witness ==
    /\ fn = "_parse_port_range"
    /\ arg = <<[kind |-> "single", v |-> 22], [kind |-> "range", lo |-> 20, hi |-> 23],
               [kind |-> "single", v |-> 1]>>
    /\ out.ports = <<1, 20, 21, 22, 23>>

\* C10: every port number the parser returns lies in [1, 65535].
C10_PortsInRange ==
    (fn = "_parse_port_range" /\ ~out.raised) =>
        \A k \in 1..Len(out.ports) : out.ports[k] \in PortMin..PortMax

\* ------------------------------------------------------------------------
\* Properties of the Seek part (SpecSeek)
\* ------------------------------------------------------------------------
Oversize(target) ==
    /\ target.kind = "cidr"
    /\ target.prefix \in 0..AddrBits
    /\ Pow2(AddrBits - target.prefix) > HostCap

\* C7: a Seek call whose well-formed target expands to more than 65536
\* addresses is answered with a failure, and no entry is put into the seek
\* map for it.
C7_OversizeTargetFails ==
    (spc = "s_done" /\ Oversize(sreq.target)) =>
        /\ response # "200"
        /\ scan_id \notin DOMAIN seek_cache

\* the target has none of the three accepted forms
Unparseable(target) ==
    \/ target.kind = "junk"
    \/ target.kind = "cidr" /\ target.prefix > AddrBits
    \/ target.kind = "dash" /\ (target.end < 0 \/ target.end > OctetMax
                                 \/ target.addr % OctetSize > target.end)

\* C8: a Seek call whose target (as the handler reads it) is unparseable is
\* rejected at once: the answer is a failure, no scan id is drawn, no
\* connection attempt is made, and the step that receives the call leaves the
\* seek map, the scan history and the id counter as they were.
RejectedAtOnce ==
    (spc # "idle" /\ Unparseable(sreq.target)) =>
        /\ spc = "s_done"
        /\ response = "400"
        /\ probes = 0
        /\ all_hosts = <<>> /\ alive_hosts = {}
        /\ scan_id = 0
        /\ result = NoResult

NothingStored ==
    (seeks' # seeks /\ Unparseable(sreq'.target)) =>
        UNCHANGED <<seek_cache, history, nextId>>

ProbeDone ==
    /\ ~nmap_available
    /\ all_hosts # <<>>
    /\ probes >= Len(all_hosts) * Len(ProbePorts)

Definitive(h) ==
    \E k \in 1..Len(ProbePorts) :
        TcpAnswer(netenv[h], ProbePorts[k]) \in {"connected", "refused"}

\* C11: once the liveness probe is over, every candidate host that gave a
\* completed handshake or a reset on some probe port is in the alive set, and
\* no host whose probe ports all timed out is.
C11_ProbeClassifies ==
    ProbeDone =>
        \A h \in SeqRange(all_hosts) : (h \in alive_hosts) <=> Definitive(h)

C11_Witness ==
    /\ ProbeDone
    /\ \E h \in alive_hosts : netenv[h] = "rst"
    /\ \E h \in SeqRange(all_hosts) : netenv[h] = "hidden" /\ h \notin alive_hosts

PortsParse == \A k \in 1..Len(sreq.ports) : PartOfPorts(sreq.ports[k])

RequestedPorts == UNION {PartMembers(sreq.ports[k]) : k \in 1..Len(sreq.ports)}

CandidateCount(target) ==
    CASE target.kind = "ip" -> 1
      [] target.kind = "cidr" -> Cardinality(UsableHosts(target))
      [] target.kind = "dash" -> target.end - (target.addr % OctetSize) + 1

\* a fallback scan of a listable target with a readable port spec whose
\* history row was written
FallbackScan ==
    /\ ~nmap_available
    /\ netenv # <<>>
    /\ ~Oversize(sreq.target)
    /\ PortsParse
    /\ scan_id \in DOMAIN history

AllUnreachable == \A h \in DOMAIN netenv : netenv[h] = "dead"

\* C12: a fallback scan whose candidate hosts all time out on every port does
\* not raise: it returns the SeekResult with hosts_scanned = number of
\* candidate hosts, hosts_alive = 0 and no hosts, and that result is what the
\* seek map holds for the call; the call is answered 200 when its history
\* row is completed.
C12_NoAliveHostsGivesEmptyResult ==
    (/\ FallbackScan
     /\ AllUnreachable
     /\ spc \in {"k_sweep", "s_return", "s_raise", "s_done"}) =>
        /\ spc \in {"s_return", "s_done"}
        /\ result = [scan_id |-> 0, hosts_scanned |-> CandidateCount(sreq.target),
                     hosts_alive |-> 0, hosts |-> <<>>]
        /\ spc = "s_done" =>
              /\ scan_id \in DOMAIN seek_cache
              /\ seek_cache[scan_id] = [result EXCEPT !.scan_id = scan_id]
              /\ history[scan_id] = "completed" => response = "200"

C12_Witness ==
    /\ FallbackScan
    /\ AllUnreachable
    /\ spc = "s_done"
    /\ response = "200"
    /\ sreq.target = [kind |-> "ip", addr |-> 167772165]
    /\ Len(sreq.ports) = 2
    /\ seek_cache[scan_id].hosts_scanned = 1
    /\ seek_cache[scan_id].hosts = <<>>

OpenRequested(h) ==
    {p \in RequestedPorts : TcpAnswer(netenv[h], p) = "connected"}

\* C13: the host list a fallback scan returns holds exactly the candidate
\* hosts that answered the liveness probe and have an open requested port,
\* each once, and each host carries one DiscoveredService per open requested
\* port and no other.
C13_HostsAreAliveWithOpenPorts ==
    (FallbackScan /\ spc = "s_return") =>
        LET Expected == {h \in DOMAIN netenv : Definitive(h) /\ OpenRequested(h) # {}}
            hosts == result.hosts
        IN /\ {hosts[k].ip : k \in 1..Len(hosts)} = Expected
           /\ Len(hosts) = Cardinality(Expected)
           /\ \A k \in 1..Len(hosts) :
                LET sv == hosts[k].services
                IN /\ {sv[j].port : j \in 1..Len(sv)} = OpenRequested(hosts[k].ip)
                   /\ Len(sv) = Cardinality(OpenRequested(hosts[k].ip))
                   /\ \A j \in 1..Len(sv) : sv[j].protocol = "tcp"

C13_Witness ==
    /\ FallbackScan
    /\ spc = "s_return"
    /\ sreq.target = [kind |-> "cidr", addr |-> 167772165, prefix |-> 30]
    /\ \E h, g \in DOMAIN netenv :
          /\ netenv[h] = "ssh" /\ netenv[g] = "dead"
          /\ Len(result.hosts) = 1
          /\ result.hosts[1].ip = h
          /\ Len(result.hosts[1].services) = 1
          /\ result.hosts[1].services[1].port = 22

\* ------------------------------------------------------------------------
\* Further properties of the Enter part (SpecEnter)
\* ------------------------------------------------------------------------
\* C14: a finished Enter run for port 21 with module id "auto" whose server
\* answered the anonymous PASS with 230 ran the anonymous-FTP module, has a
\* success event in its stream, and its stored EnterResult has success = TRUE
\* and access_level at the default of the EnterResult model, the empty string.
C14_FtpAnonymousKeepsDefaultAccess ==
    (/\ pc = "done"
     /\ req.port = 21 /\ req.exploit_id = "auto"
     /\ mflag = "230") =>
        /\ exploit = "ftp_anonymous"
        /\ \E k \in 1..Len(stream) :
              /\ stream[k].event_type = "success"
              /\ stream[k].message = <<"[+] Anonymous FTP login SUCCESSFUL">>
        /\ sid \in DOMAIN sessions
        /\ sessions[sid].success
        /\ sessions[sid].access_level = ""

\* the step in which the import at the head of the HTTP module raises
HttpModuleFaults ==
    /\ pc = "x_dispatch"
    /\ exploit = "http_default_creds"
    /\ pc' \notin {"http_client", "cancelled"}

CrashSurfaced ==
    HttpModuleFaults =>
        /\ pc' = "e_crashed"
        /\ stream' = Append(stream, _event("error", <<"[!] Module crashed:">>, ""))

CrashStored ==
    (pc = "e_crashed" /\ pc' # "cancelled") =>
        /\ sid \in DOMAIN sessions'
        /\ pc' = "e_final" =>
              stream' = Append(stream, _event("complete", <<"[*] Result:">>, ""))
        /\ pc' = "raised" => history'[sid] = "running"

\* C16: a fault raised inside a running module does not leave the stream:
\* the next event the consumer gets is an error event, then the EnterResult
\* is stored and the next event is the complete event; the stream can end
\* without it only when persisting the result raises or the consumer goes
\* away first.
C16_ModuleCrashSurfaced ==
    /\ [][CrashSurfaced]_vars
    /\ [][CrashStored]_vars
    /\ []((Crashed /\ pc = "done") =>
            /\ stream[Len(stream)].event_type = "complete"
            /\ ResultStored)

C16_Witness ==
    /\ pc = "done"
    /\ Crashed
    /\ stream[Len(stream)].event_type = "complete"
    /\ stream[Len(stream) - 1].event_type = "error"
    /\ CountType("complete") = 1

\* ------------------------------------------------------------------------
\* Further properties of the Seek part (SpecSeek)
\* ------------------------------------------------------------------------
\* C15: on the nmap path seek_scan never raises: a call whose history row
\* was written and that was not rejected ends with a SeekResult in the seek
\* map.
C15_NmapFailureDegrades ==
    nmap_available =>
        /\ spc # "s_raise"
        /\ (spc = "s_done" /\ response # "400" /\ scan_id \in DOMAIN history) =>
              scan_id \in DOMAIN seek_cache

FromModule(ev) == ev.module # ""

C18_DetachReleasesResources == pc = "cancelled" => inflight = 0

\* a scan id has been drawn and run_seek has not yet stored a result
ScanInFlight ==
    spc \in {"k_expand", "k_probe", "k_sweep", "n_ping", "n_scan", "s_return", "s_raise"}

CacheWrittenWhole ==
    /\ \A k \in DOMAIN seek_cache :
          k \in DOMAIN seek_cache' /\ seek_cache'[k] = seek_cache[k]
    /\ \A k \in DOMAIN seek_cache' \ DOMAIN seek_cache :
          /\ spc = "s_return" /\ spc' = "s_done"
          /\ k = scan_id
          /\ seek_cache'[k] = [scan_id |-> k,
                               hosts_scanned |-> result.hosts_scanned,
                               hosts_alive |-> result.hosts_alive,
                               hosts |-> result.hosts]

AttemptEvent(ev) ==
    /\ ev.event_type = "output"
    /\ ev.message[1] \in {"    Testing", "   ", "    POST"}

NoAttemptAfterSuccess ==
    (/\ exploit \in {"ssh_bruteforce", "http_default_creds"}
     /\ CountType("success") > 0
     /\ runs' = runs) =>
        /\ opened' = opened
        /\ Len(stream') > Len(stream) => ~AttemptEvent(stream'[Len(stream')])

\* C20: in the SSH and HTTP credential modules, once the stream holds a
\* success event no step of the run opens a connection or starts a helper,
\* and no event announcing a credential attempt is added to the stream.
C20_StopsAfterFirstSuccess == [][NoAttemptAfterSuccess]_vars

C20_Witness ==
    /\ pc = "done"
    /\ exploit = "ssh_bruteforce"
    /\ CountType("success") = 2
    /\ idx = 2
    /\ opened = 2
    /\ Cardinality({k \in 1..Len(stream) : AttemptEvent(stream[k])}) = 2

\* C21: when the banner-grab module has returned, the last event it yielded
\* is a success event for captured data or an error event for a failed
\* connection.
C21_BannerGrabEndsDecided ==
    (pc = "x_complete" /\ exploit = "banner_grab") =>
        LET last == emitted[Len(emitted) - 1]
        IN \/ last.event_type = "success"
           \/ last.event_type = "error" /\ last = BannerFailed

\* ------------------------------------------------------------------------
\* Further properties of the pure functions (SpecPure)
\* ------------------------------------------------------------------------
FindingLines(raw) == {k \in 1..Len(raw) : raw[k].kind = "finding"}

\* C23: for every script text the parser returns; it yields one finding per
\* line that has an identifier and a score token, a token that is no numeral
\* gives the score 0.0, and every finding has a score from 0.0 to 10.0.
C23_VulnersParseNeverAborts ==
    fn = "_parse_vulners_output" =>
        /\ ~out.raised
        /\ Len(out.vulns) = Cardinality(FindingLines(arg))
        /\ \A k \in 1..Len(out.vulns) :
              out.vulns[k].cvss >= CvssMin /\ out.vulns[k].cvss <= CvssMax

\* ------------------------------------------------------------------------
\* Counts of a SeekResult (SpecSeek)
\* ------------------------------------------------------------------------
\* C24: the SeekResult seek_scan returns for a listable target has
\* hosts_scanned = number of candidate hosts and hosts_alive = number of
\* hosts the liveness detection found alive, on either path.
C24_CountsAreProbedAndAlive ==
    (/\ spc = "s_return"
     /\ netenv # <<>>
     /\ ~Oversize(sreq.target)) =>
        /\ result.hosts_scanned = CandidateCount(sreq.target)
        /\ result.hosts_alive = Cardinality(alive_hosts)

\* ------------------------------------------------------------------------
\* The stored EnterResult and the order of events (SpecEnter)
\* ------------------------------------------------------------------------
IsSuccess(ev) == ev.event_type = "success"

RECURSIVE Messages(_)
Messages(evs) ==
    IF evs = <<>> THEN <<>> ELSE <<Head(evs).message>> \o Messages(Tail(evs))

\* C26: the EnterResult stored for the current run has success = TRUE exactly
\* when the stream holds a success event, its loot is the messages of the
\* success events in stream order, and its access_level is "none" exactly
\* when success is FALSE and one of user, root, admin otherwise.
C26_ResultMatchesStream ==
    sid \in DOMAIN sessions =>
        LET r == sessions[sid]
        IN /\ r.success <=> CountType("success") > 0
           /\ r.loot = Messages(SelectSeq(stream, IsSuccess))
           /\ r.access_level = "none" <=> ~r.success
           /\ r.success => r.access_level \in {"user", "root", "admin"}

C26_Witness ==
    /\ pc = "done"
    /\ sid \in DOMAIN sessions
    /\ sessions[sid].success
    /\ Len(sessions[sid].loot) = 2
    /\ sessions[sid].access_level = "root"

\* C27: a stream that holds a success event holds no error event.
C27_SuccessExcludesError ==
    CountType("success") > 0 => CountType("error") = 0

\* C28: whenever the stream of the current run holds a complete event, the
\* EnterResult of the run is in the session map.
C28_ResultStoredBeforeComplete ==
    CountType("complete") > 0 => sid \in DOMAIN sessions

\* ------------------------------------------------------------------------
\* A failed Seek call (SpecSeek)
\* ------------------------------------------------------------------------
\* C30: after a Seek call that was answered with a server error,
\* get_seek_result finds nothing under the scan id of the call.
C30_FailedSeekLeavesNoEntry ==
    (spc = "s_done" /\ response = "500") => ~get_seek_result(scan_id).found

\* ------------------------------------------------------------------------
\* Batches, failed attempts and progress of one seek_scan call (SpecScan)
\* ------------------------------------------------------------------------
\* the connects one step of the fallback scan issues before it awaits them all
BatchBounded ==
    probes' > probes =>
        probes' - probes <= IF spc = "k_probe"
                            THEN HostConcurrency * Len(ProbePorts)
                            ELSE PortBatchSize

\* C22: on the fallback path every gather of the liveness probe covers at
\* most 50 hosts, that is at most 50 x |probe ports| connects, and every
\* gather of the port sweep at most 200 connects, however many hosts and
\* ports the scan has; the next batch is issued only by the step after the
\* one that awaited the previous batch.
C22_BatchesBounded == [][BatchBounded]_vars

C22_Witness ==
    /\ spc = "k_sweep"
    /\ Len(all_hosts) > HostConcurrency
    /\ Len(port_list) > PortBatchSize
    /\ cursor.i = PortBatchSize
    /\ probes = Len(all_hosts) * Len(ProbePorts) + PortBatchSize

SocketScan ==
    /\ ~nmap_available
    /\ spc # "idle"
    /\ PortsParse

ProbedAlive == {h \in SeqRange(all_hosts) : Definitive(h)}

\* C25: a fallback scan with a readable port list never raises, whatever
\* each connect meets (handshake, refusal, timeout, OSError): when the sweep
\* starts every candidate host has been probed on every probe port and the
\* alive set holds exactly the hosts with a handshake or refusal; when the
\* scan returns, every requested port of every alive host has been tried
\* as well, and every alive host with an open requested port is listed with
\* exactly its open requested ports.
C25_AttemptFailuresStayLocal ==
    SocketScan =>
        /\ spc # "s_raise"
        /\ spc = "k_sweep" =>
              /\ alive_hosts = ProbedAlive
              /\ probes >= Len(all_hosts) * Len(ProbePorts)
        /\ (spc = "s_return" /\ all_hosts # <<>>) =>
              LET hosts == result.hosts
              IN /\ alive_hosts = ProbedAlive
                 /\ probes = Len(all_hosts) * Len(ProbePorts)
                             + Cardinality(alive_hosts) * Len(port_list)
                 /\ {hosts[k].ip : k \in 1..Len(hosts)}
                      = {h \in ProbedAlive : OpenRequested(h) # {}}
                 /\ \A k \in 1..Len(hosts) :
                      LET sv == hosts[k].services
                      IN {sv[j].port : j \in 1..Len(sv)} = OpenRequested(hosts[k].ip)

C25_Witness ==
    /\ SocketScan
    /\ spc = "s_return"
    /\ Len(all_hosts) > HostConcurrency
    /\ Len(port_list) > PortBatchSize
    /\ \E k \in 1..HostConcurrency : netenv[all_hosts[k]] = "unreachable"
    /\ \E k \in (HostConcurrency + 1)..Len(all_hosts) :
          /\ netenv[all_hosts[k]] = "ssh_filtered"
          /\ \E j \in 1..Len(result.hosts) : result.hosts[j].ip = all_hosts[k]

\* C29: when a seek_scan call that was given a progress sink returns its
\* SeekResult, it has reported at least one percentage, every reported
\* percentage is within 0..100, none is lower than the one before it, and
\* the last one is 100.
C29_ProgressEndsAtHundred ==
    (spc = "s_return" /\ on_progress) =>
        /\ progress # <<>>
        /\ \A k \in 1..Len(progress) : progress[k] \in 0..100
        /\ \A k \in 1..(Len(progress) - 1) : progress[k] <= progress[k + 1]
        /\ progress[Len(progress)] = 100

====
